---- MODULE Spec2Model ----
(***************************************************************************)
(* Server actions of the polling application (app/lib/actions/             *)
(* poll-actions.ts): createPoll, getPollById, submitVote, deletePoll and   *)
(* updatePoll over the two backend tables polls and votes.                 *)
(*                                                                         *)
(* Every handler is an async function; it is cut at its awaited backend    *)
(* calls.  One action is one backend call (atomic at the backend) together *)
(* with the synchronous code that follows it up to the next await.         *)
(***************************************************************************)
EXTENDS Integers, Sequences, FiniteSets, TLC

(***************************************************************************)
(* Text.  A string is a sequence of runs [ch, n]: the character ch         *)
(* repeated n >= 1 times, adjacent runs holding different characters.      *)
(* This keeps the real length limits (3, 200, 500) within reach.           *)
(***************************************************************************)
Run(c, k) == [ch |-> c, n |-> k]

Whitespace == {" ", "\t", "\n"}

\* the character class of the regular expression /[<>"'&]/g
StrippedChars == {"<", ">", "\"", "'", "&"}

RECURSIVE StrLen(_)
StrLen(s) == IF s = <<>> THEN 0 ELSE Head(s).n + StrLen(Tail(s))

RECURSIVE TrimStart(_)
TrimStart(s) ==
  IF s # <<>> /\ Head(s).ch \in Whitespace THEN TrimStart(Tail(s)) ELSE s

RECURSIVE TrimEnd(_)
TrimEnd(s) ==
  IF s # <<>> /\ s[Len(s)].ch \in Whitespace
  THEN TrimEnd(SubSeq(s, 1, Len(s) - 1))
  ELSE s

\* String.prototype.trim
Trim(s) == TrimEnd(TrimStart(s))

\* joins adjacent runs of one character (keeps the representation canonical)
RECURSIVE Join(_)
Join(s) ==
  IF Len(s) < 2 THEN s
  ELSE IF s[1].ch = s[2].ch
       THEN Join(<<Run(s[1].ch, s[1].n + s[2].n)>> \o SubSeq(s, 3, Len(s)))
       ELSE <<s[1]>> \o Join(Tail(s))

IsKept(run) == run.ch \notin StrippedChars

\* .replace(/[<>"'&]/g, '')
StripChars(s) == Join(SelectSeq(s, IsKept))

sanitizeInput(input) == StripChars(Trim(input))

MapSeq(F(_), s) == [i \in 1..Len(s) |-> F(s[i])]

Some(P(_), s) == \E i \in 1..Len(s) : P(s[i])

\* the JavaScript null, and the strings the handlers return
null == "null"
ErrQuestionShort == "Question must be at least 3 characters long."
ErrFewOptions == "Please provide at least two options."
ErrEmptyOption == "All options must contain valid text."
ErrQuestionLong == "Question is too long (max 500 characters)."
ErrOptionLong == "Options are too long (max 200 characters each)."
ErrAuth == "Authentication error. Please try again."
ErrLoginCreate == "You must be logged in to create a poll."
ErrLoginDelete == "You must be logged in to delete a poll."
ErrLoginUpdate == "You must be logged in to update a poll."
ErrCreate == "Failed to create poll. Please try again."
ErrDelete == "Failed to delete poll or poll not found."
ErrUpdate == "Failed to update poll or poll not found."
ErrIdFormat == "Invalid poll ID format."
ErrNotFound == "Poll not found."
ErrOption == "Invalid option selection."
ErrVoted == "You have already voted on this poll."
ErrVote == "Failed to submit vote. Please try again."

MinQuestionLen == 3
MinOptions == 2
MaxQuestionLen == 500
MaxOptionLen == 200

\* !opt || opt.trim().length === 0
IsBlank(opt) == opt = <<>> \/ StrLen(Trim(opt)) = 0

IsOptionTooLong(opt) == StrLen(opt) > MaxOptionLen

\* a validator without the check of the options' text
validatePollInputNoOptionCheck(question, options) ==
  IF question = <<>> \/ StrLen(Trim(question)) < MinQuestionLen
    THEN ErrQuestionShort
  ELSE IF Len(options) < MinOptions THEN ErrFewOptions
  ELSE IF StrLen(question) > MaxQuestionLen THEN ErrQuestionLong
  ELSE IF Some(IsOptionTooLong, options) THEN ErrOptionLong
  ELSE null

\* a validator that looks at the question's length before the options' text
validatePollInputLengthFirst(question, options) ==
  IF question = <<>> \/ StrLen(Trim(question)) < MinQuestionLen
    THEN ErrQuestionShort
  ELSE IF Len(options) < MinOptions THEN ErrFewOptions
  ELSE IF StrLen(question) > MaxQuestionLen THEN ErrQuestionLong
  ELSE IF Some(IsBlank, options) THEN ErrEmptyOption
  ELSE IF Some(IsOptionTooLong, options) THEN ErrOptionLong
  ELSE null

validatePollInput(question, options) ==
  IF question = <<>> \/ StrLen(Trim(question)) < MinQuestionLen
    THEN ErrQuestionShort
  ELSE IF Len(options) < MinOptions THEN ErrFewOptions
  ELSE IF Some(IsBlank, options) THEN ErrEmptyOption
  ELSE IF StrLen(question) > MaxQuestionLen THEN ErrQuestionLong
  ELSE IF Some(IsOptionTooLong, options) THEN ErrOptionLong
  ELSE null

\* Boolean(s) of a string: false for the empty string only
Truthy(s) == s # <<>>

(***************************************************************************)
(* Poll identifiers.  An id string is its "-"-separated groups, each a run *)
(* of one character class, and a key telling apart strings of one shape.   *)
(***************************************************************************)
HexClasses == {"hex", "HEX"}

UuidGroups == <<8, 4, 4, 4, 12>>

\* /^[0-9a-f]{8}-[0-9a-f]{4}-[0-9a-f]{4}-[0-9a-f]{4}-[0-9a-f]{12}$/i.test(id)
IsUuid(id) ==
  /\ Len(id.groups) = Len(UuidGroups)
  /\ \A i \in 1..Len(id.groups) :
       id.groups[i].ch \in HexClasses /\ id.groups[i].n = UuidGroups[i]

(***************************************************************************)
(* Numbers.  optionIndex is a JavaScript number: n, or n + 1/2 when frac.  *)
(***************************************************************************)
Num(k) == [n |-> k, frac |-> FALSE]

NumAndHalf(k) == [n |-> k, frac |-> TRUE]

\* Number.isInteger(x)
IsInteger(x) == ~x.frac

\* x < 0
IsNegative(x) == x.n < 0

\* x >= len, len an integer
AtLeast(x, len) == x.n >= len

(***************************************************************************)
(* The backend: the auth provider and the tables polls and votes.          *)
(*   poll row: [id, user_id, question, options]                            *)
(*   vote row: [id, poll_id, user_id, option_index]                        *)
(* A call's answer is [data, error]; data is a set of rows, empty for the  *)
(* JavaScript null.  fail is the environment's choice that the call fails. *)
(***************************************************************************)
NoUser == 0

\* supabase.auth.getUser(): { data: { user }, error }
AuthGetUser(caller, fail) ==
  [user |-> IF fail THEN NoUser ELSE caller, error |-> fail]

\* .single(): exactly one row, or data null and an error
Single(rows, fail) ==
  IF fail \/ Cardinality(rows) # 1
  THEN [data |-> {}, error |-> TRUE]
  ELSE [data |-> rows, error |-> FALSE]

\* from("polls").select(...).eq("id", id)
PollsById(rows, id) == {p \in rows : p.id = id.key}

\* from("votes").select("*").eq("poll_id", pollId).eq("user_id", user.id)
VotesByPollAndUser(rows, id, uid) ==
  {v \in rows : v.poll_id = id.key /\ v.user_id = uid}

\* from("polls").insert([{ user_id, question, options }]); the id is new
InsertPoll(rows, lastId, uid, question, options) ==
  rows \cup {[id |-> lastId + 1, user_id |-> uid,
              question |-> question, options |-> options]}

HasPoll(rows, key) == \E p \in rows : p.id = key

\* the votes left once the deleted polls have taken theirs with them
CascadeVotes(vrows, prows) == {v \in vrows : HasPoll(prows, v.poll_id)}

\* from("votes").insert([{ poll_id, user_id, option_index }])
InsertVote(rows, lastId, id, uid, idx) ==
  rows \cup {[id |-> lastId + 1, poll_id |-> id.key, user_id |-> uid,
              option_index |-> idx.n]}

\* from("polls").delete().eq("id", id).eq("user_id", user.id)
DeletePollRows(rows, id, uid) ==
  {p \in rows : ~(p.id = id.key /\ p.user_id = uid)}

\* an update filtered by id alone
UpdateAnyOwner(rows, id, uid, question, options) ==
  {IF p.id = id.key
   THEN [p EXCEPT !.question = question, !.options = options]
   ELSE p : p \in rows}

\* from("polls").update({ question, options }).eq("id", pollId).eq("user_id", user.id)
UpdatePollRows(rows, id, uid, question, options) ==
  {IF p.id = id.key /\ p.user_id = uid
   THEN [p EXCEPT !.question = question, !.options = options]
   ELSE p : p \in rows}

(***************************************************************************)
(* State.  req[r] is one invocation of a handler: where it stands (pc),    *)
(* its arguments (caller is the session's user, NoUser without a session), *)
(* its locals (user, question, options) and its result (error, poll, the    *)
(* polls of getUserPolls in list).                                         *)
(* calls, failed, ins, hadVote and target are history: the outside calls   *)
(* the invocation has issued, those that failed, the vote rows it has      *)
(* inserted, whether the caller had a vote on the poll when it started,    *)
(* and what its delete or update found ("own", "other", "missing").        *)
(***************************************************************************)
VARIABLES polls, votes, lastPollId, lastVoteId, req

vars == <<polls, votes, lastPollId, lastVoteId, req>>

NumUsers == 2
MaxPolls == 1
MaxVotes == 2
MaxReq == 2
MaxIdx == 2

Users == 1..NumUsers
Callers == {NoUser} \cup Users
Req == 1..MaxReq

Str(c, k) == <<Run(c, k)>>

Uuid(k, class) ==
  [key |-> k, groups |-> [i \in 1..Len(UuidGroups) |-> Run(class, UuidGroups[i])]]

NoId == [key |-> 0, groups |-> <<>>]

\* "abc"; a non-hex group; a last group one digit long
MalformedIds ==
  { [key |-> 1, groups |-> <<Run("hex", 3)>>],
    [key |-> 1, groups |-> [Uuid(1, "hex").groups EXCEPT ![3] = Run("other", 4)]],
    [key |-> 1, groups |-> [Uuid(1, "hex").groups EXCEPT ![5] = Run("hex", 13)]] }

IdInputs ==
  {Uuid(k, "hex") : k \in 1..MaxPolls} \cup {Uuid(1, "HEX")} \cup MalformedIds

IdxInputs ==
  {Num(k) : k \in -1..MaxIdx} \cup {Num(MaxIdx + 3), NumAndHalf(0), NumAndHalf(-1)}

NoIdx == Num(0)

Form(q, opts) == [hasQuestion |-> TRUE, question |-> q, options |-> opts]

NoForm == [hasQuestion |-> FALSE, question |-> <<>>, options |-> <<>>]

\* two options; three options with text to trim and strip; one option;
\* no question field
Forms ==
  { Form(Str("a", 3), <<Str("a", 1), Str("b", 1)>>),
    Form(<<Run(" ", 1), Run("b", 2), Run("<", 1), Run("b", 2)>>,
         <<Str("a", 1), <<>>, <<Run("b", 1), Run("&", 1)>>, Str("c", 200)>>),
    Form(Str("a", 3), <<Str("a", 1)>>),
    [NoForm EXCEPT !.options = <<Str("a", 1), Str("b", 1)>>] }

LeanIds == {Uuid(k, "hex") : k \in 1..(MaxPolls + 1)}

LeanIdxs == {Num(0), Num(MaxIdx)}

LeanForms ==
  { Form(Str("a", 3), <<Str("a", 1), Str("b", 1)>>),
    Form(Str("b", 4), <<Str("a", 1), Str("b", 1), Str("c", 1)>>) }

Idle ==
  [pc |-> "idle", op |-> "none", caller |-> NoUser, id |-> NoId, idx |-> NoIdx,
   form |-> NoForm, user |-> NoUser, question |-> <<>>, options |-> <<>>,
   error |-> null, poll |-> {}, list |-> <<>>, calls |-> <<>>, failed |-> {}, ins |-> 0,
   hadVote |-> FALSE, target |-> "none"]

Init ==
  /\ polls = {}
  /\ votes = {}
  /\ lastPollId = 0
  /\ lastVoteId = 0
  /\ req = [r \in Req |-> Idle]

Running(r) == req[r].pc \notin {"idle", "done", "thrown"}

InFlight(name) == Cardinality({r \in Req : req[r].op = name /\ Running(r)})

\* the invocation after issuing the outside call named call
Called(rec, call, fail) ==
  [rec EXCEPT !.calls = Append(@, call),
              !.failed = IF fail THEN @ \cup {call} ELSE @]

\* return { error }
Return(rec, err) == [rec EXCEPT !.pc = "done", !.error = err]

\* revalidatePath("/polls"); return { error: null }
RevalidateAndReturn(rec) == Return(Called(rec, "revalidatePath", FALSE), null)

Goto(rec, label) == [rec EXCEPT !.pc = label]

Set(r, rec) == req' = [req EXCEPT ![r] = rec]

Begin(name, caller) == [Idle EXCEPT !.op = name, !.caller = caller]

\* a new invocation takes the lowest free slot
CanStart(r) ==
  /\ req[r].pc = "idle"
  /\ \A o \in Req : o < r => req[o].pc # "idle"

SameTables == UNCHANGED <<polls, votes, lastPollId, lastVoteId>>

TheRow(data) == CHOOSE row \in data : TRUE

\* what a delete or update filtered by id and owner finds
TargetOf(rows, id, uid) ==
  IF \E p \in rows : p.id = id.key /\ p.user_id = uid THEN "own"
  ELSE IF HasPoll(rows, id.key) THEN "other"
  ELSE "missing"

(***************************************************************************)
(* createPoll                                                              *)
(***************************************************************************)
\* the options sanitized with the empty ones left in
SanitizedOptionsKeepingEmpty(form) == MapSeq(sanitizeInput, form.options)

\* formData.getAll("options").filter(Boolean).map(opt => sanitizeInput(opt))
SanitizedOptions(form) == MapSeq(sanitizeInput, SelectSeq(form.options, Truthy))

\* sanitize, validate; formData.get("question") is null without the field,
\* and null.trim() throws
ValidateForm(rec, form, next) ==
  IF ~form.hasQuestion THEN Goto(rec, "thrown")
  ELSE LET question == sanitizeInput(form.question)
           options == SanitizedOptions(form)
           validationError == validatePollInput(question, options)
       IN IF validationError # null THEN Return(rec, validationError)
          ELSE [rec EXCEPT !.pc = next, !.question = question,
                           !.options = options]

\* an identity check that lets an invocation without a session through
RequireUserAnySession(rec, res, loginError, next) ==
  IF res.error THEN Return(rec, ErrAuth)
  ELSE [rec EXCEPT !.pc = next, !.user = res.user]

\* the identity check of createPoll, deletePoll and updatePoll
RequireUser(rec, res, loginError, next) ==
  IF res.error THEN Return(rec, ErrAuth)
  ELSE IF res.user = NoUser THEN Return(rec, loginError)
  ELSE [rec EXCEPT !.pc = next, !.user = res.user]

\* a write that reports a failure whenever it changed no row of the caller's
AfterWriteOwnOnly(rec, error, message) ==
  IF error \/ rec.target # "own" THEN Return(rec, message)
  ELSE RevalidateAndReturn(rec)

\* a write that reports a failure when no row has the id
AfterWriteFound(rec, error, message) ==
  IF error \/ rec.target = "missing" THEN Return(rec, message)
  ELSE RevalidateAndReturn(rec)

\* a write that invalidates the listing whatever the backend answered
AfterWriteAlwaysRevalidate(rec, error, message) ==
  IF error THEN Return(Called(rec, "revalidatePath", FALSE), message)
  ELSE RevalidateAndReturn(rec)

\* if (error) return { error: message }; revalidatePath; return { error: null }
AfterWrite(rec, error, message) ==
  IF error THEN Return(rec, message) ELSE RevalidateAndReturn(rec)

\* createPoll while fewer than max polls have been created
CreatePollUpTo(r, Cs, Fs, max) ==
  /\ CanStart(r)
  /\ lastPollId + InFlight("createPoll") < max
  /\ \E caller \in Cs, form \in Fs :
       Set(r, ValidateForm([Begin("createPoll", caller) EXCEPT !.form = form],
                           form, "cp_getUser"))
  /\ SameTables

CreatePollGetUser(r, fail) ==
  /\ req[r].pc = "cp_getUser"
  /\ Set(r, RequireUser(Called(req[r], "auth.getUser", fail),
                        AuthGetUser(req[r].caller, fail),
                        ErrLoginCreate, "cp_insert"))
  /\ SameTables

CreatePollInsert(r, fail) ==
  /\ req[r].pc = "cp_insert"
  /\ polls' = IF fail THEN polls
              ELSE InsertPoll(polls, lastPollId, req[r].user,
                              req[r].question, req[r].options)
  /\ lastPollId' = IF fail THEN lastPollId ELSE lastPollId + 1
  /\ Set(r, AfterWrite(Called(req[r], "polls.insert", fail), fail, ErrCreate))
  /\ UNCHANGED <<votes, lastVoteId>>

CreatePoll(r, Cs, Fs) == CreatePollUpTo(r, Cs, Fs, MaxPolls)

(***************************************************************************)
(* getUserPolls                                                            *)
(***************************************************************************)
ErrNotAuthenticated == "Not authenticated"
ErrFetch == "Failed to fetch polls."

\* from("polls").select("*").eq("user_id", user.id)
PollsByUser(rows, uid) == {p \in rows : p.user_id = uid}

RECURSIVE OrderByCreatedDesc(_)
\* order("created_at", { ascending: false }): ids grow with the time of insert
OrderByCreatedDesc(rows) ==
  IF rows = {} THEN <<>>
  ELSE LET newest == CHOOSE p \in rows : \A q \in rows : q.id <= p.id
       IN <<newest>> \o OrderByCreatedDesc(rows \ {newest})

GetUserPolls(r, Cs) ==
  /\ CanStart(r)
  /\ \E caller \in Cs : Set(r, Goto(Begin("getUserPolls", caller), "gu_getUser"))
  /\ SameTables

\* const { data: { user } } = await supabase.auth.getUser(); error is not read
GetUserPollsGetUser(r, fail) ==
  /\ req[r].pc = "gu_getUser"
  /\ LET rec == Called(req[r], "auth.getUser", fail)
         user == AuthGetUser(req[r].caller, fail).user
     IN Set(r, IF user = NoUser THEN Return(rec, ErrNotAuthenticated)
               ELSE [rec EXCEPT !.pc = "gu_select", !.user = user])
  /\ SameTables

\* if (error) return { polls: [], error }; return { polls: data ?? [], error: null }
GetUserPollsSelect(r, fail) ==
  /\ req[r].pc = "gu_select"
  /\ LET rec == Called(req[r], "polls.select", fail)
     IN Set(r, IF fail THEN Return(rec, ErrFetch)
               ELSE [Return(rec, null) EXCEPT
                       !.list = OrderByCreatedDesc(PollsByUser(polls, req[r].user))])
  /\ SameTables

(***************************************************************************)
(* getPollById                                                             *)
(***************************************************************************)
GetPollById(r, Ids) ==
  /\ CanStart(r)
  /\ \E id \in Ids :
       LET rec == [Begin("getPollById", NoUser) EXCEPT !.id = id]
       IN Set(r, IF ~IsUuid(id) THEN Return(rec, ErrIdFormat)
                 ELSE Goto(rec, "gp_select"))
  /\ SameTables

\* a result that leaves the row out
GetPollByIdResultNoData(rec, res) ==
  IF res.error THEN Return(rec, ErrNotFound) ELSE Return(rec, null)

\* if (error) return { poll: null, error }; return { poll: data, error: null }
GetPollByIdResult(rec, res) ==
  IF res.error THEN Return(rec, ErrNotFound)
  ELSE [Return(rec, null) EXCEPT !.poll = res.data]

GetPollByIdSelect(r, fail) ==
  /\ req[r].pc = "gp_select"
  /\ Set(r, GetPollByIdResult(Called(req[r], "polls.select", fail),
                              Single(PollsById(polls, req[r].id), fail)))
  /\ SameTables

(***************************************************************************)
(* submitVote                                                              *)
(***************************************************************************)
\* the two input checks in the other order
SubmitVoteInputsIndexFirst(rec) ==
  IF ~IsInteger(rec.idx) \/ IsNegative(rec.idx) THEN Return(rec, ErrOption)
  ELSE IF ~IsUuid(rec.id) THEN Return(rec, ErrIdFormat)
  ELSE Goto(rec, "sv_getUser")

SubmitVoteInputs(rec) ==
  IF ~IsUuid(rec.id) THEN Return(rec, ErrIdFormat)
  ELSE IF ~IsInteger(rec.idx) \/ IsNegative(rec.idx) THEN Return(rec, ErrOption)
  ELSE Goto(rec, "sv_getUser")

SubmitVote(r, Cs, Ids, Idxs) ==
  /\ CanStart(r)
  /\ lastVoteId + InFlight("submitVote") < MaxVotes
  /\ \E caller \in Cs, id \in Ids, idx \in Idxs :
       Set(r, SubmitVoteInputs(
                [Begin("submitVote", caller) EXCEPT
                   !.id = id, !.idx = idx,
                   !.hadVote = caller # NoUser
                               /\ VotesByPollAndUser(votes, id, caller) # {}]))
  /\ SameTables

\* const { data: { user } } = await supabase.auth.getUser(); error is not read
SubmitVoteGetUser(r, fail) ==
  /\ req[r].pc = "sv_getUser"
  /\ Set(r, [Called(req[r], "auth.getUser", fail) EXCEPT
               !.pc = "sv_fetch",
               !.user = AuthGetUser(req[r].caller, fail).user])
  /\ SameTables

\* the fetch without the comparison of the index with the options
FetchedNoRangeCheck(rec, res) ==
  IF res.error \/ res.data = {} THEN Return(rec, ErrNotFound)
  ELSE IF rec.user # NoUser THEN Goto(rec, "sv_lookup")
  ELSE Goto(rec, "sv_insert")

\* if (pollError || !poll) ...; if (optionIndex >= poll.options.length) ...;
\* if (user) look for an existing vote
Fetched(rec, res) ==
  IF res.error \/ res.data = {} THEN Return(rec, ErrNotFound)
  ELSE IF AtLeast(rec.idx, Len(TheRow(res.data).options))
    THEN Return(rec, ErrOption)
  ELSE IF rec.user # NoUser THEN Goto(rec, "sv_lookup")
  ELSE Goto(rec, "sv_insert")

SubmitVoteFetch(r, fail) ==
  /\ req[r].pc = "sv_fetch"
  /\ Set(r, Fetched(Called(req[r], "polls.select", fail),
                    Single(PollsById(polls, req[r].id), fail)))
  /\ SameTables

\* the lookup with its answer left unread
LookedUpIgnored(rec, res) == Goto(rec, "sv_insert")

\* if (existingVote) return already voted; the lookup's error is not read
LookedUp(rec, res) ==
  IF res.data # {} THEN Return(rec, ErrVoted) ELSE Goto(rec, "sv_insert")

SubmitVoteLookup(r, fail) ==
  /\ req[r].pc = "sv_lookup"
  /\ Set(r, LookedUp(Called(req[r], "votes.select", fail),
                     Single(VotesByPollAndUser(votes, req[r].id, req[r].user),
                            fail)))
  /\ SameTables

\* votes.poll_id references polls.id
ForeignKeyHolds(prows, id) == HasPoll(prows, id.key)

\* the insert reports an error when the call fails or the poll is gone
VoteRefused(prows, id, fail) == fail \/ ~ForeignKeyHolds(prows, id)

\* an insert that looks for the caller's vote once more
SubmitVoteInsertIfAbsent(r, fail) ==
  /\ req[r].pc = "sv_insert"
  /\ LET voted == req[r].user # NoUser
                  /\ VotesByPollAndUser(votes, req[r].id, req[r].user) # {}
         refused == VoteRefused(polls, req[r].id, fail)
         error == voted \/ refused
         rec == Called(req[r], "votes.insert", refused)
     IN /\ votes' = IF error THEN votes
                    ELSE InsertVote(votes, lastVoteId, req[r].id, req[r].user,
                                    req[r].idx)
        /\ lastVoteId' = IF error THEN lastVoteId ELSE lastVoteId + 1
        /\ Set(r, IF voted THEN Return(rec, ErrVoted)
                  ELSE IF error THEN Return(rec, ErrVote)
                  ELSE Return([rec EXCEPT !.ins = @ + 1], null))
  /\ UNCHANGED <<polls, lastPollId>>

SubmitVoteInsert(r, fail) ==
  /\ req[r].pc = "sv_insert"
  /\ LET error == VoteRefused(polls, req[r].id, fail)
         rec == Called(req[r], "votes.insert", error)
     IN /\ votes' = IF error THEN votes
                    ELSE InsertVote(votes, lastVoteId, req[r].id, req[r].user,
                                    req[r].idx)
        /\ lastVoteId' = IF error THEN lastVoteId ELSE lastVoteId + 1
        /\ Set(r, IF error THEN Return(rec, ErrVote)
                  ELSE Return([rec EXCEPT !.ins = @ + 1], null))
  /\ UNCHANGED <<polls, lastPollId>>

(***************************************************************************)
(* deletePoll                                                              *)
(***************************************************************************)
DeletePoll(r, Cs, Ids) ==
  /\ CanStart(r)
  /\ \E caller \in Cs, id \in Ids :
       LET rec == [Begin("deletePoll", caller) EXCEPT !.id = id]
       IN Set(r, IF ~IsUuid(id) THEN Return(rec, ErrIdFormat)
                 ELSE Goto(rec, "dp_getUser"))
  /\ SameTables

DeletePollGetUser(r, fail) ==
  /\ req[r].pc = "dp_getUser"
  /\ Set(r, RequireUser(Called(req[r], "auth.getUser", fail),
                        AuthGetUser(req[r].caller, fail),
                        ErrLoginDelete, "dp_delete"))
  /\ SameTables

DeletePollDelete(r, fail) ==
  /\ req[r].pc = "dp_delete"
  /\ polls' = IF fail THEN polls
              ELSE DeletePollRows(polls, req[r].id, req[r].user)
  /\ votes' = CascadeVotes(votes, polls')
  /\ Set(r, AfterWrite([Called(req[r], "polls.delete", fail) EXCEPT
                          !.target = TargetOf(polls, req[r].id, req[r].user)],
                       fail, ErrDelete))
  /\ UNCHANGED <<lastPollId, lastVoteId>>

(***************************************************************************)
(* updatePoll                                                              *)
(***************************************************************************)
UpdatePoll(r, Cs, Ids, Fs) ==
  /\ CanStart(r)
  /\ \E caller \in Cs, id \in Ids, form \in Fs :
       LET rec == [Begin("updatePoll", caller) EXCEPT !.id = id, !.form = form]
       IN Set(r, IF ~IsUuid(id) THEN Return(rec, ErrIdFormat)
                 ELSE ValidateForm(rec, form, "up_getUser"))
  /\ SameTables

UpdatePollGetUser(r, fail) ==
  /\ req[r].pc = "up_getUser"
  /\ Set(r, RequireUser(Called(req[r], "auth.getUser", fail),
                        AuthGetUser(req[r].caller, fail),
                        ErrLoginUpdate, "up_update"))
  /\ SameTables

\* an update that also drops the votes whose index the new options lack
UpdatePollUpdateDroppingVotes(r, fail) ==
  /\ req[r].pc = "up_update"
  /\ polls' = IF fail THEN polls
              ELSE UpdatePollRows(polls, req[r].id, req[r].user,
                                  req[r].question, req[r].options)
  /\ votes' = {v \in votes :
                 \A p \in polls' : p.id = v.poll_id
                                      => v.option_index < Len(p.options)}
  /\ Set(r, AfterWrite([Called(req[r], "polls.update", fail) EXCEPT
                          !.target = TargetOf(polls, req[r].id, req[r].user)],
                       fail, ErrUpdate))
  /\ UNCHANGED <<lastPollId, lastVoteId>>

UpdatePollUpdate(r, fail) ==
  /\ req[r].pc = "up_update"
  /\ polls' = IF fail THEN polls
              ELSE UpdatePollRows(polls, req[r].id, req[r].user,
                                  req[r].question, req[r].options)
  /\ Set(r, AfterWrite([Called(req[r], "polls.update", fail) EXCEPT
                          !.target = TargetOf(polls, req[r].id, req[r].user)],
                       fail, ErrUpdate))
  /\ UNCHANGED <<votes, lastPollId, lastVoteId>>

\* the result has been handed to the caller; the slot is free again
Release(r) ==
  /\ req[r].pc \in {"done", "thrown"}
  /\ Set(r, Idle)
  /\ SameTables

(***************************************************************************)
(* One step of invocation r, with the environment's choices drawn from     *)
(* the given sets: whether a backend call fails, the session's user, the   *)
(* poll id, the option index and the form.                                 *)
(***************************************************************************)
Step(r, Fails, Cs, Ids, Idxs, Fs) ==
  \/ CreatePoll(r, Cs, Fs)
  \/ \E fail \in Fails : CreatePollGetUser(r, fail)
  \/ \E fail \in Fails : CreatePollInsert(r, fail)
  \/ GetUserPolls(r, Cs)
  \/ \E fail \in Fails : GetUserPollsGetUser(r, fail)
  \/ \E fail \in Fails : GetUserPollsSelect(r, fail)
  \/ GetPollById(r, Ids)
  \/ \E fail \in Fails : GetPollByIdSelect(r, fail)
  \/ SubmitVote(r, Cs, Ids, Idxs)
  \/ \E fail \in Fails : SubmitVoteGetUser(r, fail)
  \/ \E fail \in Fails : SubmitVoteFetch(r, fail)
  \/ \E fail \in Fails : SubmitVoteLookup(r, fail)
  \/ \E fail \in Fails : SubmitVoteInsert(r, fail)
  \/ DeletePoll(r, Cs, Ids)
  \/ \E fail \in Fails : DeletePollGetUser(r, fail)
  \/ \E fail \in Fails : DeletePollDelete(r, fail)
  \/ UpdatePoll(r, Cs, Ids, Fs)
  \/ \E fail \in Fails : UpdatePollGetUser(r, fail)
  \/ \E fail \in Fails : UpdatePollUpdate(r, fail)
  \/ Release(r)

(***************************************************************************)
(* Spec: invocations overlap freely; every backend call succeeds; the      *)
(* callers are signed in and the arguments well formed.                    *)
(***************************************************************************)
Next == \E r \in Req : Step(r, {FALSE}, Users, LeanIds, LeanIdxs, LeanForms)

Spec == Init /\ [][Next]_vars

(***************************************************************************)
(* SpecSeq: one invocation at a time, each run to completion before the    *)
(* next starts; every backend call succeeds; any caller, any argument.     *)
(***************************************************************************)
NextSeq == Step(1, {FALSE}, Callers, IdInputs, IdxInputs, Forms)

SpecSeq == Init /\ [][NextSeq]_vars

(***************************************************************************)
(* SpecFail: one invocation at a time; every backend call may fail; any    *)
(* caller, any argument.                                                   *)
(***************************************************************************)
NextFail == Step(1, BOOLEAN, Callers, IdInputs, IdxInputs, Forms)

SpecFail == Init /\ [][NextFail]_vars

(***************************************************************************)
(* SpecText: createPoll and updatePoll, one at a time, by one signed-in    *)
(* user, over forms whose texts need trimming and stripping and sit on     *)
(* both sides of every length limit.                                       *)
(***************************************************************************)
MaxTextOptions == 3

\* "", "aa", "<  a", " a<a>a ", a^500, a^501, "< " a^499, "< " a^500
TextQuestions ==
  { <<>>,
    Str("a", 2),
    <<Run("<", 1), Run(" ", 2), Run("a", 1)>>,
    <<Run(" ", 1), Run("a", 1), Run("<", 1), Run("a", 1), Run(">", 1),
      Run("a", 1), Run(" ", 1)>>,
    Str("a", 500),
    Str("a", 501),
    <<Run("<", 1), Run(" ", 1), Run("a", 499)>>,
    <<Run("<", 1), Run(" ", 1), Run("a", 500)>> }

\* "", " ", "< ", " a&", a^200, " " a^200 " ", "<" a^201
TextOptions ==
  { <<>>,
    Str(" ", 1),
    <<Run("<", 1), Run(" ", 1)>>,
    <<Run(" ", 1), Run("a", 1), Run("&", 1)>>,
    Str("a", 200),
    <<Run(" ", 1), Run("a", 200), Run(" ", 1)>>,
    <<Run("<", 1), Run("a", 201)>> }

TextOptionLists ==
  UNION {[1..k -> TextOptions] : k \in 0..MaxTextOptions}

TextForms == {Form(q, opts) : q \in TextQuestions, opts \in TextOptionLists}

NextText ==
  \/ CreatePoll(1, {1}, TextForms)
  \/ CreatePollGetUser(1, FALSE)
  \/ CreatePollInsert(1, FALSE)
  \/ UpdatePoll(1, {1}, {Uuid(1, "hex")}, TextForms)
  \/ UpdatePollGetUser(1, FALSE)
  \/ UpdatePollUpdate(1, FALSE)
  \/ Release(1)

SpecText == Init /\ [][NextText]_vars

(***************************************************************************)
(* Properties                                                              *)
(***************************************************************************)
Done(r, name) == req[r].pc = "done" /\ req[r].op = name

\* the vote rows of one signed-in user on one poll
VotesOf(key, uid) == {v \in votes : v.poll_id = key /\ v.user_id = uid}

\* idx is an integer index into the options of the stored poll id names
IsValidIndex(id, idx) ==
  /\ IsInteger(idx) /\ ~IsNegative(idx)
  /\ \E p \in PollsById(polls, id) : ~AtLeast(idx, Len(p.options))

\* C1 as stated (SpecSeq): a submitVote by a signed-in user who already has a
\* vote row on the poll returns "You have already voted on this poll." for
\* every index and inserts no row, and there is at most one vote row per
\* poll and signed-in user.
C1_AlreadyVotedAnyIndex ==
  /\ \A r \in Req :
       Done(r, "submitVote") /\ IsUuid(req[r].id) /\ req[r].hadVote
         => req[r].error = ErrVoted /\ req[r].ins = 0
  /\ \A key \in 1..lastPollId, u \in Users : Cardinality(VotesOf(key, u)) <= 1

\* C1 as amended (SpecSeq): the same for every index that is an integer i
\* with 0 <= i < the number of the poll's options; any other index is
\* answered by the index checks, which come first.  At most one vote row
\* per poll and signed-in user.
C1_AlreadyVoted ==
  /\ \A r \in Req :
       Done(r, "submitVote") /\ IsUuid(req[r].id) /\ req[r].hadVote
       /\ IsValidIndex(req[r].id, req[r].idx)
         => req[r].error = ErrVoted /\ req[r].ins = 0
  /\ \A r \in Req :
       Done(r, "submitVote") /\ req[r].hadVote => req[r].ins = 0
  /\ \A key \in 1..lastPollId, u \in Users : Cardinality(VotesOf(key, u)) <= 1

\* a second vote, with an index in range, has been turned down
C1_Witness ==
  \E r \in Req :
    /\ Done(r, "submitVote") /\ req[r].hadVote
    /\ IsValidIndex(req[r].id, req[r].idx)
    /\ req[r].error = ErrVoted
    /\ VotesOf(req[r].id.key, req[r].caller) # {}

\* C2 (Spec): nothing stands between the existing-vote lookup and the
\* insert.  An invocation that has passed the lookup inserts its row and
\* returns {error: null} whenever the backend takes the insert, whatever
\* rows other invocations have committed since the lookup.
C2_InsertUnchecked ==
  [][\A r \in Req :
       /\ req[r].pc = "sv_insert" /\ req'[r].pc = "done"
       /\ HasPoll(polls, req[r].id.key)
       /\ "votes.insert" \notin req'[r].failed
       => /\ req'[r].error = null
          /\ \E v \in votes' \ votes :
               /\ v.poll_id = req[r].id.key
               /\ v.user_id = req[r].user
               /\ v.option_index = req[r].idx.n]_vars

\* two overlapping invocations of one signed-in user on one poll have both
\* returned {error: null}, and the user has two vote rows on the poll
C2_Witness ==
  \E r1, r2 \in Req :
    /\ r1 # r2
    /\ Done(r1, "submitVote") /\ Done(r2, "submitVote")
    /\ req[r1].caller # NoUser /\ req[r1].caller = req[r2].caller
    /\ req[r1].id.key = req[r2].id.key
    /\ req[r1].error = null /\ req[r2].error = null
    /\ req[r1].ins = 1 /\ req[r2].ins = 1
    /\ Cardinality(VotesOf(req[r1].id.key, req[r1].caller)) = 2

\* C3 as stated (Spec): every vote row, at the moment submitVote inserts it,
\* has 0 <= option_index < the number of options its poll has at that moment.
C3_IndexInRange ==
  [][\A r \in Req :
       req[r].pc = "sv_insert" /\ req'[r].pc = "done"
       => \A v \in votes' \ votes :
            \E p \in polls' :
              /\ p.id = v.poll_id
              /\ 0 <= v.option_index
              /\ v.option_index < Len(p.options)]_vars

\* invocation r, finished, is by a signed-in user on a stored poll of
\* somebody else
ByNonOwner(r) ==
  /\ req[r].pc = "done"
  /\ req[r].caller # NoUser
  /\ IsUuid(req[r].id)
  /\ \E p \in PollsById(polls, req[r].id) : p.user_id # req[r].caller

\* C4 as stated (SpecFail): deletePoll by a signed-in user who is not the
\* owner of the stored poll returns a non-null error.
C4_NonOwnerDeleteFails ==
  \A r \in Req :
    Done(r, "deletePoll") /\ ByNonOwner(r) => req[r].error # null

\* C4 as amended (SpecFail): such a deletePoll returns {error: null} when
\* its backend calls succeed (the filtered delete matches no row and reports
\* nothing); its error is non-null only when the identity lookup fails
\* ("Authentication error. Please try again.") or the delete call fails
\* ("Failed to delete poll or poll not found.").
C4_NonOwnerDeleteSilent ==
  \A r \in Req :
    Done(r, "deletePoll") /\ ByNonOwner(r)
      => req[r].error = IF "auth.getUser" \in req[r].failed THEN ErrAuth
                        ELSE IF "polls.delete" \in req[r].failed THEN ErrDelete
                        ELSE null

\* a non-owner's deletePoll has returned {error: null}; the poll is there
C4_Witness ==
  \E r \in Req :
    /\ Done(r, "deletePoll") /\ ByNonOwner(r)
    /\ req[r].target = "other"
    /\ req[r].error = null

\* the rows of votes that reference the poll key
VotesOn(rows, key) == {v \in rows : v.poll_id = key}

\* step r -> done of the named backend write, by the poll's owner
WriteBy(r, label, p) ==
  /\ req[r].pc = label /\ req'[r].pc = "done"
  /\ req[r].id.key = p.id
  /\ req[r].caller = p.user_id /\ req[r].user = p.user_id

\* C5 (Spec): a poll's owner is the caller of the createPoll that inserted
\* it and never changes; its question and options change only in an
\* updatePoll of its owner, and it goes only in a deletePoll of its owner;
\* a deletePoll or updatePoll of a signed-in non-owner leaves the poll's row
\* and the votes on it as they are.
C5_OwnerOnly ==
  [][/\ \A p \in polls :
          LET after == {q \in polls' : q.id = p.id}
          IN /\ after = {} => \E r \in Req : WriteBy(r, "dp_delete", p)
             /\ \A q \in after :
                  /\ q.user_id = p.user_id
                  /\ q # p => \E r \in Req : WriteBy(r, "up_update", p)
     /\ \A q \in polls' :
          ~HasPoll(polls, q.id)
            => \E r \in Req : /\ req[r].pc = "cp_insert" /\ req'[r].pc = "done"
                              /\ req[r].caller = q.user_id
     /\ \A r \in Req :
          /\ req[r].pc \in {"dp_delete", "up_update"} /\ req'[r].pc = "done"
          /\ \E p \in PollsById(polls, req[r].id) : p.user_id # req[r].caller
          => /\ PollsById(polls', req[r].id) = PollsById(polls, req[r].id)
             /\ VotesOn(votes', req[r].id.key) = VotesOn(votes, req[r].id.key)
    ]_vars

\* a non-owner's updatePoll has returned; the poll with votes on it is there
C5_Witness ==
  \E r \in Req :
    /\ Done(r, "updatePoll") /\ ByNonOwner(r)
    /\ req[r].target = "other"
    /\ VotesOn(votes, req[r].id.key) # {}

\* how often the invocation has invalidated the "/polls" listing
Revalidations(rec) ==
  Cardinality({i \in 1..Len(rec.calls) : rec.calls[i] = "revalidatePath"})

C7_FailureSurfaced ==
  \A r \in Req :
    Done(r, "submitVote")
      => /\ req[r].failed # {} => req[r].error # null /\ req[r].ins = 0
         /\ \A i, j \in 1..Len(req[r].calls) :
              req[r].calls[i] = req[r].calls[j] => i = j

\* the form has a question, and its sanitized texts fail validation
IsRejected(form) ==
  /\ form.hasQuestion
  /\ validatePollInput(sanitizeInput(form.question), SanitizedOptions(form)) # null

RejectionOf(form) ==
  validatePollInput(sanitizeInput(form.question), SanitizedOptions(form))

IsBadIndex(idx) == ~IsInteger(idx) \/ IsNegative(idx)

\* the step in which invocation r starts and at once returns message, having
\* issued no outside call and left the tables as they were
ReturnsAtOnce(r, message) ==
  /\ req'[r].pc = "done"
  /\ req'[r].error = message
  /\ req'[r].poll = {}
  /\ req'[r].calls = <<>>
  /\ polls' = polls /\ votes' = votes

\* C8 as stated (SpecFail): a malformed id makes getPollById, submitVote,
\* deletePoll and updatePoll return "Invalid poll ID format."; a non-integer
\* or negative index makes submitVote return "Invalid option selection.";
\* texts that fail validation make createPoll and updatePoll return the
\* validator's message; each before any outside call, tables unchanged.
C8_ValidationFirstAnyId ==
  [][\A r \in Req :
       req[r].pc = "idle" /\ req'[r].pc # "idle"
       => /\ req'[r].op \in {"getPollById", "submitVote", "deletePoll", "updatePoll"}
             /\ ~IsUuid(req'[r].id)
             => ReturnsAtOnce(r, ErrIdFormat)
          /\ req'[r].op = "submitVote" /\ IsBadIndex(req'[r].idx)
             => ReturnsAtOnce(r, ErrOption)
          /\ req'[r].op \in {"createPoll", "updatePoll"} /\ IsRejected(req'[r].form)
             => ReturnsAtOnce(r, RejectionOf(req'[r].form))]_vars

\* C8 as amended (SpecFail): the id is checked first, so the index rule of
\* submitVote and the validation rule of updatePoll hold for a well-formed
\* id; with a malformed id the answer is "Invalid poll ID format.".
C8_ValidationFirst ==
  [][\A r \in Req :
       req[r].pc = "idle" /\ req'[r].pc # "idle"
       => /\ req'[r].op \in {"getPollById", "submitVote", "deletePoll", "updatePoll"}
             /\ ~IsUuid(req'[r].id)
             => ReturnsAtOnce(r, ErrIdFormat)
          /\ req'[r].op = "submitVote" /\ IsUuid(req'[r].id)
             /\ IsBadIndex(req'[r].idx)
             => ReturnsAtOnce(r, ErrOption)
          /\ req'[r].op = "createPoll" /\ IsRejected(req'[r].form)
             => ReturnsAtOnce(r, RejectionOf(req'[r].form))
          /\ req'[r].op = "updatePoll" /\ IsUuid(req'[r].id)
             /\ IsRejected(req'[r].form)
             => ReturnsAtOnce(r, RejectionOf(req'[r].form))]_vars

\* an updatePoll without a session, on a stored poll, has been turned down
\* by the validator
C8_Witness ==
  \E r \in Req :
    /\ Done(r, "updatePoll")
    /\ req[r].caller = NoUser
    /\ PollsById(polls, req[r].id) # {} /\ IsUuid(req[r].id)
    /\ IsRejected(req[r].form)
    /\ req[r].error = ErrFewOptions
    /\ req[r].calls = <<>>

\* C9 as stated (SpecFail): submitVote with an integer index >= the number
\* of options of the stored poll returns "Invalid option selection."; for a
\* poll that is not stored it returns "Poll not found."; no row is inserted.
C9_OutOfRangeAlways ==
  \A r \in Req :
    Done(r, "submitVote") /\ IsUuid(req[r].id)
      => /\ IsInteger(req[r].idx)
            /\ (\E p \in PollsById(polls, req[r].id) :
                  AtLeast(req[r].idx, Len(p.options)))
            => req[r].error = ErrOption /\ req[r].ins = 0
         /\ PollsById(polls, req[r].id) = {}
            => req[r].error = ErrNotFound /\ req[r].ins = 0

\* C9 as amended (SpecFail): with an integer index >= the number of options
\* of the stored poll, submitVote inserts no row and returns "Invalid option
\* selection." when the poll fetch succeeds and "Poll not found." when the
\* fetch fails; for a well-formed id of no stored poll it inserts no row and
\* returns "Poll not found." when the index is a non-negative integer, and
\* "Invalid option selection." otherwise.
C9_OutOfRange ==
  \A r \in Req :
    Done(r, "submitVote") /\ IsUuid(req[r].id)
      => /\ IsInteger(req[r].idx)
            /\ (\E p \in PollsById(polls, req[r].id) :
                  AtLeast(req[r].idx, Len(p.options)))
            => /\ req[r].ins = 0
               /\ req[r].error = IF "polls.select" \in req[r].failed
                                 THEN ErrNotFound ELSE ErrOption
         /\ PollsById(polls, req[r].id) = {}
            => /\ req[r].ins = 0
               /\ req[r].error = IF IsBadIndex(req[r].idx)
                                 THEN ErrOption ELSE ErrNotFound

\* a vote without a session, its index the number of the poll's options,
\* has been turned down after a poll fetch that succeeded
C9_Witness ==
  \E r \in Req :
    /\ Done(r, "submitVote")
    /\ req[r].caller = NoUser
    /\ \E p \in PollsById(polls, req[r].id) : req[r].idx.n = Len(p.options)
    /\ req[r].calls = <<"auth.getUser", "polls.select">>
    /\ req[r].failed = {}
    /\ req[r].error = ErrOption

HasStrippedChar(s) == \E i \in 1..Len(s) : s[i].ch \in {"<", ">", "\"", "'", "&"}

\* C10 (SpecText): every stored poll has a question of at most 500
\* characters and at least 3 after trimming, at least 2 options, each
\* non-empty after trimming and of at most 200 characters, and none of
\* < > " ' & in the question or in an option.
C10_StoredPollsValid ==
  \A p \in polls :
    /\ StrLen(p.question) <= 500
    /\ StrLen(Trim(p.question)) >= 3
    /\ ~HasStrippedChar(p.question)
    /\ Len(p.options) >= 2
    /\ \A i \in 1..Len(p.options) :
         /\ StrLen(Trim(p.options[i])) > 0
         /\ StrLen(p.options[i]) <= 200
         /\ ~HasStrippedChar(p.options[i])

\* an updatePoll has stored texts that sanitizing changed: a question of 500
\* characters and an option cut to 200, from a form with an empty option
C10_Witness ==
  \E r \in Req, p \in polls :
    /\ Done(r, "updatePoll") /\ req[r].error = null
    /\ p.question = req[r].question /\ p.options = req[r].options
    /\ req[r].form.question # p.question
    /\ StrLen(p.question) = 500
    /\ Len(req[r].form.options) > Len(p.options)
    /\ \E i \in 1..Len(p.options), j \in 1..Len(req[r].form.options) :
         /\ StrLen(req[r].form.options[j]) > 200
         /\ p.options[i] = sanitizeInput(req[r].form.options[j])

\* C11 as stated (SpecFail): every invocation of a handler, whatever its
\* input and whatever the backend answers, ends by returning a result with
\* an error field; none ends by raising an exception, createPoll and
\* updatePoll on a form without a question field included.
C11_NeverThrows == \A r \in Req : req[r].pc # "thrown"

(***************************************************************************)
(* SpecTwoPolls: one invocation at a time; every backend call may fail;    *)
(* signed-in callers, well-formed arguments; one poll more than MaxPolls,  *)
(* so that votes on one poll are there when another poll is deleted.       *)
(***************************************************************************)
NextTwoPolls ==
  \/ CreatePollUpTo(1, Users, LeanForms, MaxPolls + 1)
  \/ \E fail \in BOOLEAN : CreatePollGetUser(1, fail)
  \/ \E fail \in BOOLEAN : CreatePollInsert(1, fail)
  \/ SubmitVote(1, Callers, LeanIds, LeanIdxs)
  \/ \E fail \in BOOLEAN : SubmitVoteGetUser(1, fail)
  \/ \E fail \in BOOLEAN : SubmitVoteFetch(1, fail)
  \/ \E fail \in BOOLEAN : SubmitVoteLookup(1, fail)
  \/ \E fail \in BOOLEAN : SubmitVoteInsert(1, fail)
  \/ DeletePoll(1, Users, LeanIds)
  \/ \E fail \in BOOLEAN : DeletePollGetUser(1, fail)
  \/ \E fail \in BOOLEAN : DeletePollDelete(1, fail)
  \/ UpdatePoll(1, Users, LeanIds, LeanForms)
  \/ \E fail \in BOOLEAN : UpdatePollGetUser(1, fail)
  \/ \E fail \in BOOLEAN : UpdatePollUpdate(1, fail)
  \/ Release(1)

SpecTwoPolls == Init /\ [][NextTwoPolls]_vars

\* the step in which invocation r's backend write at label returns without
\* error, having found a poll of the caller
OwnWriteDone(r, label) ==
  /\ req[r].pc = label /\ req'[r].pc = "done"
  /\ req'[r].error = null
  /\ req'[r].target = "own"

\* C12 (SpecTwoPolls): a vote row is never modified, and it goes only in the
\* step of a deletePoll that removes the poll it references; the owner's
\* successful updatePoll, also one that shortens or reorders the options,
\* leaves every vote row as it is; the owner's successful deletePoll removes
\* exactly the votes that reference the deleted poll.
C12_VotesImmutable ==
  [][/\ \A v \in votes :
          \/ v \in votes'
          \/ /\ \A w \in votes' : w.id # v.id
             /\ HasPoll(polls, v.poll_id) /\ ~HasPoll(polls', v.poll_id)
             /\ \E r \in Req : /\ OwnWriteDone(r, "dp_delete")
                               /\ req[r].id.key = v.poll_id
     /\ \A r \in Req : req[r].pc = "up_update" /\ req'[r].pc # "up_update"
                         => votes' = votes
     /\ \A r \in Req : OwnWriteDone(r, "dp_delete")
          => votes' = votes \ VotesOn(votes, req[r].id.key)
    ]_vars

\* the owner's deletePoll has returned {error: null}; no vote references the
\* deleted poll, and the votes on the other poll are still there
C12_Witness ==
  \E r \in Req :
    /\ Done(r, "deletePoll") /\ req[r].error = null /\ req[r].target = "own"
    /\ ~HasPoll(polls, req[r].id.key)
    /\ VotesOn(votes, req[r].id.key) = {}
    /\ lastVoteId = MaxVotes
    /\ Cardinality(votes) = 1
    /\ \E v \in votes : HasPoll(polls, v.poll_id)

\* the message of createPoll, deletePoll and updatePoll for a caller without
\* a session
LoginErrorOf(name) ==
  CASE name = "createPoll" -> ErrLoginCreate
    [] name = "deletePoll" -> ErrLoginDelete
    [] name = "updatePoll" -> ErrLoginUpdate

\* C13 (SpecFail): a createPoll, updatePoll or deletePoll without a session
\* whose input has passed validation returns at its identity lookup: "You
\* must be logged in to ..." when the lookup succeeds and "Authentication
\* error. Please try again." when it fails; it has issued no other outside
\* call (no table write, no invalidation), and polls and votes are as before.
C13_LoginRequired ==
  [][\A r \in Req :
       /\ req[r].pc \in {"cp_getUser", "dp_getUser", "up_getUser"}
       /\ req[r].caller = NoUser
       /\ req'[r] # req[r]
       => /\ req'[r].pc = "done"
          /\ req'[r].error = IF "auth.getUser" \in req'[r].failed THEN ErrAuth
                             ELSE LoginErrorOf(req[r].op)
          /\ req'[r].calls = <<"auth.getUser">>
          /\ polls' = polls /\ votes' = votes]_vars

\* an updatePoll without a session, with a valid form and the id of a stored
\* poll, has been told to log in
C13_Witness ==
  \E r \in Req :
    /\ Done(r, "updatePoll") /\ req[r].caller = NoUser
    /\ ~IsRejected(req[r].form) /\ req[r].form.hasQuestion
    /\ PollsById(polls, req[r].id) # {}
    /\ req[r].failed = {}
    /\ req[r].calls = <<"auth.getUser">>
    /\ req[r].error = ErrLoginUpdate

\* the form has a question, at least two options, and texts that pass
\* validation and that sanitizing leaves as they are
IsClean(form) ==
  /\ form.hasQuestion
  /\ sanitizeInput(form.question) = form.question
  /\ \A i \in 1..Len(form.options) :
       /\ form.options[i] # <<>>
       /\ sanitizeInput(form.options[i]) = form.options[i]
  /\ validatePollInput(form.question, form.options) = null

\* C14 as stated (SpecSeq): a createPoll that returns {error: null} returns
\* the id of the poll it created, for a following getPollById.
C14_ReturnsId ==
  \A r \in Req :
    Done(r, "createPoll") /\ req[r].error = null
      => \E p \in req[r].poll : p.user_id = req[r].caller

\* C14 as amended (SpecSeq): a createPoll by a signed-in user with a valid
\* form that sanitizing leaves as it is passes validation and the identity
\* check, adds exactly one poll row, owned by the caller, with the submitted
\* question and options, and returns {error: null} and nothing else (no id);
\* a getPollById on the id of a stored poll returns {poll, error: null} with
\* the stored row, so question and options as submitted, in the same order.
C14_RoundTrip ==
  [][\A r \in Req :
       /\ req[r].pc = "idle" /\ req'[r].op = "createPoll"
          /\ IsClean(req'[r].form)
          => /\ req'[r].pc = "cp_getUser"
             /\ req'[r].question = req'[r].form.question
             /\ req'[r].options = req'[r].form.options
       /\ req[r].pc = "cp_getUser" /\ req[r].caller # NoUser /\ req'[r] # req[r]
          => req'[r].pc = "cp_insert" /\ req'[r].user = req[r].caller
       /\ req[r].pc = "cp_insert" /\ req'[r] # req[r] /\ IsClean(req[r].form)
          => /\ req'[r].pc = "done" /\ req'[r].error = null
             /\ req'[r].poll = {}
             /\ \E p \in polls' \ polls :
                  /\ polls' = polls \cup {p}
                  /\ p.user_id = req[r].caller
                  /\ p.question = req[r].form.question
                  /\ p.options = req[r].form.options
       /\ req[r].pc = "gp_select" /\ req'[r] # req[r]
          /\ PollsById(polls, req[r].id) # {}
          => /\ req'[r].pc = "done" /\ req'[r].error = null
             /\ req'[r].poll = PollsById(polls, req[r].id)
             /\ Cardinality(req'[r].poll) = 1]_vars

\* a getPollById has returned a stored poll whose question and options are
\* those of a form that sanitizing leaves as it is
C14_Witness ==
  \E r \in Req, p \in polls :
    /\ Done(r, "getPollById") /\ req[r].error = null
    /\ req[r].poll = {p}
    /\ p.id = req[r].id.key
    /\ IsClean(Form(p.question, p.options))
    /\ Form(p.question, p.options) \in Forms
    /\ p.options[1] # p.options[2]

(***************************************************************************)
(* SpecValidate: validatePollInput applied to texts as they come, trimmed  *)
(* or not, on both sides of every limit.                                   *)
(***************************************************************************)
\* the questions of TextQuestions, and "  a", "   ", "  " a^499 " "
ValidatorQuestions ==
  TextQuestions \cup
    { <<Run(" ", 2), Run("a", 1)>>,
      Str(" ", 3),
      <<Run(" ", 2), Run("a", 499), Run(" ", 1)>> }

\* the options of TextOptions, and " " a^199 " "
ValidatorOptions ==
  TextOptions \cup {<<Run(" ", 1), Run("a", 199), Run(" ", 1)>>}

ValidatorOptionLists ==
  UNION {[1..k -> ValidatorOptions] : k \in 0..MaxTextOptions}

CallValidatePollInput(r, Qs, Os) ==
  /\ CanStart(r)
  /\ \E question \in Qs, options \in Os :
       Set(r, Return([Begin("validatePollInput", NoUser) EXCEPT
                        !.question = question, !.options = options],
                     validatePollInput(question, options)))
  /\ SameTables

NextValidate ==
  \/ CallValidatePollInput(1, ValidatorQuestions, ValidatorOptionLists)
  \/ Release(1)

SpecValidate == Init /\ [][NextValidate]_vars

\* the message of the first of the five checks that fails, null when none
FirstFailing(q, o) ==
  CASE StrLen(Trim(q)) < 3 -> ErrQuestionShort
    [] StrLen(Trim(q)) >= 3 /\ Len(o) < 2 -> ErrFewOptions
    [] StrLen(Trim(q)) >= 3 /\ Len(o) >= 2
       /\ (\E i \in 1..Len(o) : StrLen(Trim(o[i])) = 0) -> ErrEmptyOption
    [] StrLen(Trim(q)) >= 3 /\ Len(o) >= 2
       /\ (\A i \in 1..Len(o) : StrLen(Trim(o[i])) > 0)
       /\ StrLen(q) > 500 -> ErrQuestionLong
    [] StrLen(Trim(q)) >= 3 /\ Len(o) >= 2
       /\ (\A i \in 1..Len(o) : StrLen(Trim(o[i])) > 0)
       /\ StrLen(q) <= 500
       /\ (\E i \in 1..Len(o) : StrLen(o[i]) > 200) -> ErrOptionLong
    [] OTHER -> null

\* C15 (SpecValidate): validatePollInput returns the message of the first
\* failing check in the order: question shorter than 3 after trim; fewer
\* than 2 options; an option empty after trim; question longer than 500;
\* an option longer than 200; and null when none fails.  So it returns
\* non-null for every question shorter than 3 after trim and for every list
\* of fewer than 2 options, whatever the question.
C15_FirstFailingCheck ==
  \A r \in Req :
    Done(r, "validatePollInput")
      => /\ req[r].error = FirstFailing(req[r].question, req[r].options)
         /\ StrLen(Trim(req[r].question)) < 3 => req[r].error # null
         /\ Len(req[r].options) < 2 => req[r].error # null

\* a question of more than 500 characters with a blank option among three
\* has been answered with the message about the options' text
C15_Witness ==
  \E r \in Req :
    /\ Done(r, "validatePollInput")
    /\ StrLen(req[r].question) > 500
    /\ Len(req[r].options) = 3
    /\ StrLen(Trim(req[r].options[2])) = 0
    /\ StrLen(req[r].options[3]) > 200
    /\ req[r].error = ErrEmptyOption

\* the backend write of createPoll, deletePoll and updatePoll
WriteOf(name) ==
  CASE name = "createPoll" -> "polls.insert"
    [] name = "deletePoll" -> "polls.delete"
    [] name = "updatePoll" -> "polls.update"

\* C16 (SpecFail): a createPoll, updatePoll or deletePoll invalidates the
\* "/polls" listing exactly once if it returns {error: null} and not at all
\* if it returns an error; the invalidation is the last thing it does, after
\* the identity lookup and the backend write, none of which has failed.
C16_RevalidateOnSuccess ==
  \A r \in Req :
    req[r].op \in {"createPoll", "updatePoll", "deletePoll"}
      => /\ Running(r) => Revalidations(req[r]) = 0
         /\ req[r].pc = "done"
            => /\ req[r].error = null <=> Revalidations(req[r]) = 1
               /\ req[r].error # null <=> Revalidations(req[r]) = 0
         /\ Revalidations(req[r]) > 0
            => /\ req[r].calls =
                    <<"auth.getUser", WriteOf(req[r].op), "revalidatePath">>
               /\ req[r].failed = {}

\* the owner's deletePoll has taken its poll and invalidated the listing
C16_Witness ==
  \E r \in Req :
    /\ Done(r, "deletePoll") /\ req[r].error = null
    /\ req[r].target = "own"
    /\ polls = {}
    /\ req[r].calls = <<"auth.getUser", "polls.delete", "revalidatePath">>

\* the submitted options that are not the empty string, in their order
NonEmptyOptions(form) ==
  SelectSeq(form.options, LAMBDA opt : opt # <<>>)

\* opt is made of whitespace and stripped characters only
BecomesEmpty(opt) ==
  \A i \in 1..Len(opt) : opt[i].ch \in Whitespace \cup StrippedChars

\* C17 (SpecText): createPoll and updatePoll drop the submitted options that
\* are the empty string before sanitizing and validating; the others keep
\* their order, and it is they, sanitized, that are validated and stored.
\* "All options must contain valid text." is returned exactly when the
\* sanitized question has at least 3 characters after trimming, at least two
\* options are left, and one of those is made of whitespace and stripped
\* characters only.
C17_EmptyOptionsDropped ==
  \A r \in Req :
    req[r].op \in {"createPoll", "updatePoll"} /\ req[r].form.hasQuestion
      => LET kept == NonEmptyOptions(req[r].form)
             clean == [i \in 1..Len(kept) |-> sanitizeInput(kept[i])]
             question == sanitizeInput(req[r].form.question)
         IN /\ req[r].error = ErrEmptyOption
               <=> /\ req[r].pc = "done"
                   /\ StrLen(Trim(question)) >= 3
                   /\ Len(kept) >= 2
                   /\ \E i \in 1..Len(kept) : BecomesEmpty(kept[i])
            /\ req[r].pc = "done" /\ req[r].calls = <<>>
               => req[r].error = validatePollInput(question, clean)
            /\ req[r].calls # <<>> => req[r].options = clean
            /\ req[r].pc = "done" /\ req[r].error = null
               /\ (req[r].op = "updatePoll" => req[r].target = "own")
               => \E p \in polls : p.options = clean

\* a form with an empty option between two others has been stored as the two
\* others, sanitized, in their order
C17_Witness ==
  \E r \in Req, p \in polls :
    /\ Done(r, "createPoll") /\ req[r].error = null
    /\ Len(req[r].form.options) = 3
    /\ req[r].form.options[2] = <<>>
    /\ p.options = <<sanitizeInput(req[r].form.options[1]),
                     sanitizeInput(req[r].form.options[3])>>
    /\ p.options[1] # p.options[2]

====
